---- MODULE Spec2Model ----
(***************************************************************************)
(* Model of samples/rust-basic/src/math.rs: the free functions add and     *)
(* uses_add and the struct Greeter with its method greet.                  *)
(*                                                                         *)
(* The callers are independent test threads: a panic raised inside a call  *)
(* unwinds to the harness and is the outcome of that call; the other calls *)
(* go on.  The variable last holds the record of the most recent call.     *)
(***************************************************************************)
EXTENDS Integers, Sequences, FiniteSets, TLC

VARIABLES overflow_checks, greeters, ctor_name, first_greeting, last

vars == <<overflow_checks, greeters, ctor_name, first_greeting, last>>

(***************************************************************************)
(* Bounds of the model.                                                    *)
(***************************************************************************)
\* operands lie within Spread of i32::MIN and of i32::MAX, or are -1, 0 or 1
Spread == 1

(***************************************************************************)
(* i32                                                                     *)
(***************************************************************************)
I32_MAX == 2147483647
I32_MIN == (-I32_MAX) - 1

Operands ==
    {I32_MIN + k : k \in 0 .. Spread} \cup {-1, 0, 1}
        \cup {I32_MAX - k : k \in 0 .. Spread}

\* outcome of a call: a returned value, or a panic that unwound out of it
Ok(v) == [tag |-> "Ok", val |-> v]
Panic == [tag |-> "Panic"]

\* overflowed with the bound taken one too early: a sum of exactly i32::MAX
\* or i32::MIN counts as an overflow
overflowed_off_by_one(a, b) ==
    \/ a > 0 /\ b > 0 /\ a >= I32_MAX - b
    \/ a < 0 /\ b < 0 /\ a <= I32_MIN - b

\* overflowed with the negative side forgotten
overflowed_positive_only(a, b) ==
    a > 0 /\ b > 0 /\ a > I32_MAX - b

\* i32::overflowing_add, the flag: the exact sum does not fit in an i32.
\* The tests never form a+b when it is out of range.
overflowed(a, b) ==
    \/ a > 0 /\ b > 0 /\ a > I32_MAX - b
    \/ a < 0 /\ b < 0 /\ a < I32_MIN - b

\* wrapped as a saturating sum: an overflow stops at the bound
wrapped_saturating(a, b) ==
    IF a > 0 /\ b > 0 /\ a > I32_MAX - b
    THEN I32_MAX
    ELSE IF a < 0 /\ b < 0 /\ a < I32_MIN - b
         THEN I32_MIN
         ELSE a + b

\* wrapped with every positive overflow landing on i32::MIN
wrapped_to_min(a, b) ==
    IF a > 0 /\ b > 0 /\ a > I32_MAX - b
    THEN I32_MIN
    ELSE IF a < 0 /\ b < 0 /\ a < I32_MIN - b
         THEN ((a - I32_MIN) + b) - I32_MIN
         ELSE a + b

\* i32::overflowing_add, the value: the low 32 bits of the sum, as an i32
wrapped(a, b) ==
    IF a > 0 /\ b > 0 /\ a > I32_MAX - b
    THEN ((a + I32_MIN) + b) + I32_MIN
    ELSE IF a < 0 /\ b < 0 /\ a < I32_MIN - b
         THEN ((a - I32_MIN) + b) - I32_MIN
         ELSE a + b

\* add that returns its first argument and forgets the second
add_first_only(a, b) == Ok(a)

\* pub fn add(a: i32, b: i32) -> i32 { a + b }
\* The operator + on i32 panics on overflow when the crate is built with
\* overflow checks (the dev profile) and wraps otherwise (the release profile).
add(a, b) ==
    IF overflowed(a, b) /\ overflow_checks
    THEN Panic
    ELSE Ok(wrapped(a, b))

\* add(x, y) where x is itself the outcome of a call: a panic in the argument
\* unwinds through the enclosing call
add_left(x, b) == IF x.tag = "Panic" THEN Panic ELSE add(x.val, b)
add_right(a, y) == IF y.tag = "Panic" THEN Panic ELSE add(a, y.val)

\* uses_add with a mistyped argument
uses_add_mistyped == add(10, 2)

\* pub fn uses_add() -> i32 { add(10, 20) }
uses_add == add(10, 20)

(***************************************************************************)
(* Greeter                                                                 *)
(***************************************************************************)
World == <<"W", "o", "r", "l", "d">>

\* the names the callers choose: the empty text, a text of letters, and a text
\* that holds a space and the characters of a placeholder
Names == {<<>>, World, <<" ", "{", "}">>}

GreeterIds == {"g1", "g2"}

\* write_str under a precision of two, as {:.2} would give: the text is cut
RECURSIVE write_str_truncated(_, _)
write_str_truncated(buf, s) ==
    IF s = <<>> \/ Len(buf) >= 8 THEN buf
    ELSE write_str_truncated(Append(buf, Head(s)), Tail(s))

\* <String as Display>::fmt with an empty format spec: write_str of the text,
\* character by character, onto the output buffer
RECURSIVE write_str(_, _)
write_str(buf, s) ==
    IF s = <<>> THEN buf
    ELSE write_str(Append(buf, Head(s)), Tail(s))

\* the format string without its space
GreetFormat_no_space == <<"h", "e", "l", "l", "o", "{", "}">>

\* the format string of greet
GreetFormat == <<"h", "e", "l", "l", "o", " ", "{", "}">>

\* format!: literal characters are copied, each {} is replaced by the Display
\* of the next argument
RECURSIVE format(_, _, _)
format(buf, fmt, args) ==
    IF fmt = <<>> THEN buf
    ELSE IF Len(fmt) >= 2 /\ fmt[1] = "{" /\ fmt[2] = "}"
         THEN format(write_str(buf, Head(args)),
                     SubSeq(fmt, 3, Len(fmt)), Tail(args))
         ELSE format(Append(buf, Head(fmt)), Tail(fmt), args)

\* pub fn greet(&self) -> String { format!("hello {}", self.name) }
greet(self) == format(<<>>, GreetFormat, <<self.name>>)

\* greet taking &mut self and keeping the greeting as the new name
greet_self_renamed(self) == [self EXCEPT !.name = <<"h", "e", "l", "l", "o", " ">> \o self.name]

\* greet taking the name out of the Greeter (mem::take) and leaving it empty
greet_self_taken(self) == [self EXCEPT !.name = <<>>]

\* what greet leaves in the Greeter it borrows: &self is a shared borrow
greet_self(self) == self

(***************************************************************************)
(* State machine                                                           *)
(***************************************************************************)
NoCall == [op |-> "none"]

\* the callers have constructed the Greeters, each with a chosen name; the
\* build profile is fixed
Init ==
    /\ overflow_checks \in BOOLEAN
    /\ greeters \in [GreeterIds -> [name : Names]]
    /\ ctor_name = [g \in GreeterIds |-> greeters[g].name]
    /\ first_greeting = [g \in GreeterIds |-> <<>>]
    /\ last = NoCall

\* a caller calls add(a, b)
Add(a, b) ==
    /\ last' = [op |-> "add", a |-> a, b |-> b, out |-> add(a, b)]
    /\ UNCHANGED <<overflow_checks, greeters, ctor_name, first_greeting>>

\* after add(a, b), a caller calls add(b, a)
AddSwapped ==
    /\ last.op = "add"
    /\ last' = [op |-> "add_swapped", a |-> last.a, b |-> last.b,
                out |-> last.out, swapped |-> add(last.b, last.a)]
    /\ UNCHANGED <<overflow_checks, greeters, ctor_name, first_greeting>>

\* after add(a, b), a caller takes a third operand c and evaluates
\* add(add(a, b), c) and add(a, add(b, c))
AddRegrouped(c) ==
    /\ last.op = "add"
    /\ last' = [op |-> "add_regrouped", a |-> last.a, b |-> last.b, c |-> c,
                left |-> add_left(add(last.a, last.b), c),
                right |-> add_right(last.a, add(last.b, c))]
    /\ UNCHANGED <<overflow_checks, greeters, ctor_name, first_greeting>>

\* a caller calls uses_add()
UsesAdd ==
    /\ last' = [op |-> "uses_add", out |-> uses_add]
    /\ UNCHANGED <<overflow_checks, greeters, ctor_name, first_greeting>>

\* a caller calls greeters[g].greet(); the first greeting of g is kept
Greet(g) ==
    /\ last' = [op |-> "greet", g |-> g, out |-> greet(greeters[g]),
                repeated |-> first_greeting[g] # <<>>]
    /\ greeters' = [greeters EXCEPT ![g] = greet_self(greeters[g])]
    /\ first_greeting' =
           IF first_greeting[g] = <<>>
           THEN [first_greeting EXCEPT ![g] = greet(greeters[g])]
           ELSE first_greeting
    /\ UNCHANGED <<overflow_checks, ctor_name>>

Next ==
    \/ \E a \in Operands, b \in Operands : Add(a, b)
    \/ AddSwapped
    \/ \E c \in Operands : AddRegrouped(c)
    \/ UsesAdd
    \/ \E g \in GreeterIds : Greet(g)

Spec == Init /\ [][Next]_vars

(***************************************************************************)
(* Exact arithmetic of the properties.  An integer n is held as the pair   *)
(* of 16-bit limbs n = Hi(n) * 2^16 + Lo(n), 0 <= Lo(n) < 2^16, so that    *)
(* the exact sum of two i32 is at hand also where it exceeds 32 bits.      *)
(***************************************************************************)
Hi(n) == n \div 65536
Lo(n) == n % 65536

SumLo(a, b) == (Lo(a) + Lo(b)) % 65536
SumHi(a, b) == (Hi(a) + Hi(b)) + ((Lo(a) + Lo(b)) \div 65536)

\* the exact sum a + b lies in [-2^31, 2^31 - 1]
SumFits(a, b) == SumHi(a, b) >= -32768 /\ SumHi(a, b) <= 32767

\* the exact sum a + b, where it fits
ExactSum(a, b) == (SumHi(a, b) * 65536) + SumLo(a, b)

\* ((a + b + 2^31) mod 2^32) - 2^31
WrappedSum(a, b) ==
    ((((SumHi(a, b) + 32768) % 65536) - 32768) * 65536) + SumLo(a, b)

\* the last call was a call of add whose record holds a, b and out
AddCalled == last.op \in {"add", "add_swapped"}

HelloPrefix == <<"h", "e", "l", "l", "o", " ">>

(***************************************************************************)
(* Properties                                                              *)
(***************************************************************************)

\* C1: whenever the exact sum of a and b fits in an i32, add(a, b) returns
\* exactly that sum (for add(a, b) and for the swapped call add(b, a)).
C1_AddReturnsSum ==
    /\ AddCalled /\ SumFits(last.a, last.b)
          => last.out = Ok(ExactSum(last.a, last.b))
    /\ last.op = "add_swapped" /\ SumFits(last.b, last.a)
          => last.swapped = Ok(ExactSum(last.b, last.a))

\* add(i32::MAX - 1, 1) has returned i32::MAX, the largest sum that fits
C1_Witness ==
    /\ last.op = "add" /\ last.a = I32_MAX - 1 /\ last.b = 1
    /\ last.out = Ok(I32_MAX)

\* C2, as stated: whenever the exact sum of a and b does not fit in an i32,
\* add(a, b) returns the wrapped value ((a + b + 2^31) mod 2^32) - 2^31.
C2_AddWrapsAlways ==
    AddCalled /\ ~SumFits(last.a, last.b)
        => last.out = Ok(WrappedSum(last.a, last.b))

\* C2, amended: whenever the exact sum of a and b does not fit in an i32,
\* add(a, b) returns the wrapped value when the build has no overflow checks,
\* and panics when the build has overflow checks.
C2_AddWrapsUnchecked ==
    AddCalled /\ ~SumFits(last.a, last.b)
        => last.out = IF overflow_checks THEN Panic
                      ELSE Ok(WrappedSum(last.a, last.b))

\* without overflow checks, add(i32::MAX, 1) has returned i32::MIN
C2_Witness ==
    /\ ~overflow_checks
    /\ last.op = "add" /\ last.a = I32_MAX /\ last.b = 1
    /\ last.out = Ok(I32_MIN)

\* C3, as stated: every call add(a, b) returns an integer; none panics.
C3_AddNeverPanics ==
    AddCalled => last.out.tag = "Ok"

\* C3, amended: a call add(a, b) returns an i32 unless the build has overflow
\* checks and the exact sum of a and b does not fit; exactly then it panics.
C3_AddPanicsOnlyOnCheckedOverflow ==
    AddCalled =>
        /\ last.out.tag = "Panic"
              <=> (overflow_checks /\ ~SumFits(last.a, last.b))
        /\ last.out.tag = "Ok"
              => last.out.val >= I32_MIN /\ last.out.val <= I32_MAX

\* with overflow checks add(i32::MIN, -1) has panicked
C3_Witness ==
    /\ overflow_checks
    /\ last.op = "add" /\ last.a = I32_MIN /\ last.b = -1
    /\ last.out = Panic

\* C4: add(a, b) and add(b, a) have the same outcome, also on overflow.
C4_AddCommutes ==
    last.op = "add_swapped" => last.out = last.swapped

\* add(i32::MAX, 1) and add(1, i32::MAX) overflowed, with the same outcome
C4_Witness ==
    /\ last.op = "add_swapped" /\ last.a = I32_MAX /\ last.b = 1
    /\ last.out = last.swapped

\* C5: every call of uses_add returns 30, whatever ran before it.
C5_UsesAddIs30 ==
    last.op = "uses_add" => last.out = Ok(30)

\* uses_add has returned 30 after both Greeters were greeted
C5_Witness ==
    /\ last.op = "uses_add" /\ last.out = Ok(30)
    /\ \A g \in GreeterIds : first_greeting[g] # <<>>

\* C6: greet returns "hello " followed by the name, nothing added or removed;
\* "World" gives "hello World" and the empty name gives "hello ".
C6_GreetIsHelloName ==
    last.op = "greet" =>
        /\ last.out = HelloPrefix \o greeters[last.g].name
        /\ greeters[last.g].name = World
              => last.out = <<"h", "e", "l", "l", "o", " ",
                              "W", "o", "r", "l", "d">>
        /\ greeters[last.g].name = <<>>
              => last.out = <<"h", "e", "l", "l", "o", " ">>

\* the Greeter named "World" has returned "hello World"
C6_Witness ==
    /\ last.op = "greet" /\ greeters[last.g].name = World
    /\ last.out = <<"h", "e", "l", "l", "o", " ", "W", "o", "r", "l", "d">>

\* C7: every call of greet on a Greeter returns what its first call returned.
C7_GreetIsStable ==
    last.op = "greet" => last.out = first_greeting[last.g]

\* a Greeter greeted before has been greeted again, after the other Greeter
C7_Witness ==
    /\ last.op = "greet" /\ last.repeated
    /\ last.out = first_greeting[last.g]
    /\ \A g \in GreeterIds : first_greeting[g] # <<>>

\* C8: every Greeter's name is the name it was constructed with, whatever
\* calls of add, uses_add and greet were made.
C8_NameUnchanged ==
    \A g \in GreeterIds : greeters[g].name = ctor_name[g]

\* the Greeter named "World" has been greeted twice and is still named so
C8_Witness ==
    /\ last.op = "greet" /\ last.repeated
    /\ ctor_name[last.g] = World /\ greeters[last.g].name = World

\* C9: a greeting is 6 characters longer than the name, the greeting without
\* its first 6 characters is the name, and Greeters of different names have
\* different greetings.
C9_GreetIsInjective ==
    /\ last.op = "greet" =>
          /\ Len(last.out) = 6 + Len(greeters[last.g].name)
          /\ SubSeq(last.out, 7, Len(last.out)) = greeters[last.g].name
    /\ \A g \in GreeterIds, h \in GreeterIds :
          /\ first_greeting[g] # <<>> /\ first_greeting[h] # <<>>
          /\ greeters[g].name # greeters[h].name
          => first_greeting[g] # first_greeting[h]

\* two Greeters of different names have been greeted, differently
C9_Witness ==
    /\ last.op = "greet"
    /\ first_greeting["g1"] # <<>> /\ first_greeting["g2"] # <<>>
    /\ greeters["g1"].name # greeters["g2"].name
    /\ first_greeting["g1"] # first_greeting["g2"]

\* add(a, 0) = add(0, a) = a
AddIdentity ==
    /\ AddCalled /\ last.b = 0 => last.out = Ok(last.a)
    /\ AddCalled /\ last.a = 0 => last.out = Ok(last.b)

\* C10, as stated: add(add(a, b), c) and add(a, add(b, c)) have the same
\* outcome for every a, b, c, and add(a, 0) = add(0, a) = a.
C10_AddAssociatesAlways ==
    /\ last.op = "add_regrouped" => last.left = last.right
    /\ AddIdentity

\* C10, amended: without overflow checks add(add(a, b), c) and
\* add(a, add(b, c)) have the same outcome for every a, b, c; with overflow
\* checks they return the same value whenever both return, but one may panic
\* where the other returns; add(a, 0) = add(0, a) = a in both builds.
C10_AddAssociatesUnchecked ==
    /\ last.op = "add_regrouped" =>
          /\ ~overflow_checks => last.left = last.right
          /\ last.left.tag = "Ok" /\ last.right.tag = "Ok"
                => last.left = last.right
    /\ AddIdentity

\* without overflow checks both groupings of i32::MAX, 1, -1 have returned
\* i32::MAX, the first of them through an overflowing intermediate sum
C10_Witness ==
    /\ ~overflow_checks
    /\ last.op = "add_regrouped"
    /\ last.a = I32_MAX /\ last.b = 1 /\ last.c = -1
    /\ last.left = Ok(I32_MAX) /\ last.right = Ok(I32_MAX)

====
